---- MODULE Spec2Model ----
(***************************************************************************)
(* A model of pdf-to-json.py, the Mealime PDF to JSON converter.           *)
(*                                                                         *)
(* Text is modelled at the level of characters: a Python str is a sequence *)
(* of one-character strings, so that strip, split, the substring tests and *)
(* the regular expressions of the source are computed, not assumed.  A     *)
(* character outside ASCII is written by its code point ("U+00E9").        *)
(***************************************************************************)
EXTENDS Integers, Sequences, FiniteSets, TLC

VARIABLES
    pc,         \* position of the running call
    call,       \* the function under call and its argument (function runs)
    ret,        \* the value the function returned (function runs)
    args,       \* main: the parsed command line
    fs,         \* the file system: input directory, PDF files, JSON files
    queue,      \* process_directory: sorted(pdf_files) still to visit
    recipes,    \* process_directory: the recipes list
    failed,     \* process_directory: the failed list
    console,    \* what the run printed, as a sequence of events
    wrote,      \* whether this run wrote the output document
    vlog        \* the calls of validate_json, each with its outcome

vars == <<pc, call, ret, args, fs, queue, recipes, failed, console, wrote, vlog>>

\* Python's None and a present value, for a value that may be None.
None == <<>>
Some(x) == <<x>>

(***************************************************************************)
(* Strings                                                                 *)
(***************************************************************************)

\* The characters of a string literal.
Chars(s) == [i \in 1..Len(s) |-> SubSeq(s, i, i)]

NL == "\n"

UpperLetters == Chars("ABCDEFGHIJKLMNOPQRSTUVWXYZ")
LowerLetters == Chars("abcdefghijklmnopqrstuvwxyz")
Digits == Chars("0123456789")

Range(f) == {f[i] : i \in DOMAIN f}

\* Letters outside ASCII that the bounded inputs use: E-acute and e-acute.
NonAsciiUpper == {"U+00C9"}
NonAsciiLower == {"U+00E9"}

\* str.lower() on one character.
LowerChar(c) ==
    IF c \in Range(UpperLetters)
    THEN LowerLetters[CHOOSE i \in 1..Len(UpperLetters) : UpperLetters[i] = c]
    ELSE IF c = "U+00C9" THEN "U+00E9" ELSE c

\* str.lower()
Lower(s) == [i \in 1..Len(s) |-> LowerChar(s[i])]

\* \d
IsDigit(c) == c \in Range(Digits)

\* \s
IsSpace(c) == c \in {" ", "\t", NL, "\r", "\f"}

\* \w of a str pattern: Unicode letters, digits and the underscore.
IsWord(c) ==
    \/ c \in Range(UpperLetters) \cup Range(LowerLetters) \cup Range(Digits)
    \/ c \in NonAsciiUpper \cup NonAsciiLower
    \/ c = "_"

\* str.strip(chars) for a set of characters.
RECURSIVE LStripSet(_, _)
LStripSet(s, cs) ==
    IF s # <<>> /\ Head(s) \in cs THEN LStripSet(Tail(s), cs) ELSE s

RECURSIVE RStripSet(_, _)
RStripSet(s, cs) ==
    IF s # <<>> /\ s[Len(s)] \in cs THEN RStripSet(SubSeq(s, 1, Len(s) - 1), cs) ELSE s

StripSet(s, cs) == RStripSet(LStripSet(s, cs), cs)

\* str.strip(): whitespace on both ends.
Strip(s) == StripSet(s, {" ", "\t", NL, "\r", "\f"})

\* s.startswith(p)
StartsWith(s, p) == Len(s) >= Len(p) /\ SubSeq(s, 1, Len(p)) = p

\* p occurs in s at position i (1-based).
OccursAt(s, p, i) ==
    /\ i >= 1
    /\ i + Len(p) - 1 <= Len(s)
    /\ SubSeq(s, i, i + Len(p) - 1) = p

\* p in s
Contains(s, p) == \E i \in 1..(Len(s) + 1) : OccursAt(s, p, i)

\* text.split('\n'): always at least one piece.
RECURSIVE Split(_)
Split(s) ==
    IF \A i \in 1..Len(s) : s[i] # NL THEN <<s>>
    ELSE LET i == CHOOSE k \in 1..Len(s) :
                     s[k] = NL /\ \A j \in 1..(k - 1) : s[j] # NL
         IN  <<SubSeq(s, 1, i - 1)>> \o Split(SubSeq(s, i + 1, Len(s)))

\* '\n'.join(lines)
RECURSIVE JoinWith(_, _)
JoinWith(lines, sep) ==
    IF lines = <<>> THEN <<>>
    ELSE IF Len(lines) = 1 THEN lines[1]
    ELSE lines[1] \o sep \o JoinWith(Tail(lines), sep)

\* int(s) for a string of decimal digits.
DigitValue(c) == (CHOOSE i \in 1..10 : Digits[i] = c) - 1

RECURSIVE ToInt(_)
ToInt(s) ==
    IF s = <<>> THEN 0
    ELSE 10 * ToInt(SubSeq(s, 1, Len(s) - 1)) + DigitValue(s[Len(s)])

\* `$` of a pattern without re.MULTILINE, at position i (the index of the
\* next character): the end of the string, or just before a final newline.
AtDollar(s, i) == i = Len(s) + 1 \/ (i = Len(s) /\ s[i] = NL)

(***************************************************************************)
(* generate_recipe_id                                                      *)
(***************************************************************************)

\* re.sub(r'[^\w\s-]', '', s)
KeptInId(c) == IsWord(c) \/ IsSpace(c) \/ c = "-"

RECURSIVE StripNonIdChars(_)
StripNonIdChars(s) ==
    IF s = <<>> THEN <<>>
    ELSE (IF KeptInId(Head(s)) THEN <<Head(s)>> ELSE <<>>)
             \o StripNonIdChars(Tail(s))

\* re.sub(r'[-\s]+', '-', s): each maximal run of hyphens and whitespace
\* becomes one hyphen.
IsSep(c) == c = "-" \/ IsSpace(c)

RECURSIVE CollapseSeps(_)
CollapseSeps(s) ==
    IF s = <<>> THEN <<>>
    ELSE IF IsSep(Head(s))
         THEN <<"-">> \o CollapseSeps(LStripSet(s, {"-", " ", "\t", NL, "\r", "\f"}))
         ELSE <<Head(s)>> \o CollapseSeps(Tail(s))

generate_recipe_id(t) ==
    LET recipe_id1 == StripNonIdChars(Lower(t))
        recipe_id2 == CollapseSeps(recipe_id1)
    IN  StripSet(recipe_id2, {"-"})

(***************************************************************************)
(* Regular-expression pieces shared by the parsers                         *)
(***************************************************************************)

\* The index after the maximal run of digits that starts at i.
RECURSIVE DigitRunEnd(_, _)
DigitRunEnd(s, i) ==
    IF i <= Len(s) /\ IsDigit(s[i]) THEN DigitRunEnd(s, i + 1) ELSE i

\* The index after the maximal run of whitespace that starts at i.
RECURSIVE SpaceRunEnd(_, _)
SpaceRunEnd(s, i) ==
    IF i <= Len(s) /\ IsSpace(s[i]) THEN SpaceRunEnd(s, i + 1) ELSE i

\* (\d+)\s*<word> matches at i: a run of digits, optional whitespace, word.
NumberBeforeAt(s, word, i) ==
    /\ i <= Len(s)
    /\ IsDigit(s[i])
    /\ OccursAt(s, word, SpaceRunEnd(s, DigitRunEnd(s, i)))

\* re.search(r'(\d+)\s*<word>', s): group 1 of the leftmost match, or None.
SearchNumberBefore(s, word) ==
    IF \E i \in 1..Len(s) : NumberBeforeAt(s, word, i)
    THEN LET i == CHOOSE k \in 1..Len(s) :
                      /\ NumberBeforeAt(s, word, k)
                      /\ \A j \in 1..(k - 1) : ~NumberBeforeAt(s, word, j)
         IN  Some(SubSeq(s, i, DigitRunEnd(s, i) - 1))
    ELSE None

\* The least element of a non-empty set of integers.
Min(S) == CHOOSE x \in S : \A y \in S : x <= y

\* The positions at which p occurs in s.
Occurrences(s, p) == {i \in 1..Len(s) : OccursAt(s, p, i)}

(***************************************************************************)
(* parse_title_and_metadata                                                *)
(***************************************************************************)

TitleMinLen == 20

STR_FindCookware == Chars("Find cookware")
STR_minutes == Chars("minutes")
STR_servings == Chars("servings")
STR_serving == Chars("serving")
STR_UnknownRecipe == Chars("Unknown Recipe")
STR_30minutes == Chars("30 minutes")
DefaultServings == 2

\* The loop body's test on lines[i] (1-based): the line is a title candidate
\* and the next line carries the time and the servings.
IsTitleLine(lines, i) ==
    LET line == Strip(lines[i])
    IN  /\ Len(line) > TitleMinLen
        /\ ~StartsWith(line, STR_FindCookware)
        /\ i + 1 <= Len(lines)
        /\ Contains(Strip(lines[i + 1]), STR_minutes)
        /\ Contains(Strip(lines[i + 1]), STR_servings)

\* The for loop: the locals (title, cook_time, servings) when it ends,
\* scanning from line i.
RECURSIVE ScanTitle(_, _)
ScanTitle(lines, i) ==
    IF i > Len(lines)
    THEN [title |-> None, cook_time |-> None, servings |-> None]
    ELSE IF IsTitleLine(lines, i)
    THEN LET next_line == Strip(lines[i + 1])
             time_match == SearchNumberBefore(next_line, STR_minutes)
             servings_match == SearchNumberBefore(next_line, STR_serving)
         IN  [title |-> Some(Strip(lines[i])),
              cook_time |-> IF time_match # None
                            THEN Some(time_match[1] \o Chars(" minutes")) ELSE None,
              servings |-> IF servings_match # None
                           THEN Some(ToInt(servings_match[1])) ELSE None]
    ELSE ScanTitle(lines, i + 1)

\* x or default, for a str or None.
StrOr(x, default) == IF x = None \/ x[1] = <<>> THEN default ELSE x[1]

\* x or default, for an int or None: 0 is falsy.
IntOr(x, default) == IF x = None \/ x[1] = 0 THEN default ELSE x[1]

parse_title_and_metadata(text) ==
    LET found == ScanTitle(Split(text), 1)
    IN  [title |-> StrOr(found.title, STR_UnknownRecipe),
         cookTime |-> StrOr(found.cook_time, STR_30minutes),
         servings |-> IntOr(found.servings, DefaultServings)]

(***************************************************************************)
(* parse_cookware                                                          *)
(***************************************************************************)

STR_FindCookwareNL == Chars("Find cookware\n")
STR_NLGrabIngredients == Chars("\nGrab ingredients")
STR_Find == Chars("Find")
STR_optional == Chars("(optional)")
CookwareMinLen == 2

\* re.search(r'Find cookware\n(.*?)\nGrab ingredients', text, re.DOTALL):
\* group 1, or None.
CookwareSection(text) ==
    LET starts == {p + Len(STR_FindCookwareNL) : p \in Occurrences(text, STR_FindCookwareNL)}
        ends(from) == {q \in Occurrences(text, STR_NLGrabIngredients) : q >= from}
    IN  IF starts = {} \/ ends(Min(starts)) = {} THEN None
        ELSE Some(SubSeq(text, Min(starts), Min(ends(Min(starts))) - 1))

\* re.sub(r'\s*\(optional\)', '', item)
RECURSIVE RemoveOptional(_)
RemoveOptional(item) ==
    IF item = <<>> THEN <<>>
    ELSE LET w == SpaceRunEnd(item, 1)
         IN  IF OccursAt(item, STR_optional, w)
             THEN RemoveOptional(SubSeq(item, w + Len(STR_optional), Len(item)))
             ELSE <<Head(item)>> \o RemoveOptional(Tail(item))

RECURSIVE CookwareItems(_)
CookwareItems(items) ==
    IF items = <<>> THEN <<>>
    ELSE LET item == Strip(Head(items))
         IN  (IF item # <<>> /\ ~StartsWith(item, STR_Find) /\ Len(item) > CookwareMinLen
              THEN <<RemoveOptional(item)>> ELSE <<>>)
                 \o CookwareItems(Tail(items))

parse_cookware(text) ==
    IF CookwareSection(text) = None THEN <<>>
    ELSE CookwareItems(Split(CookwareSection(text)[1]))

(***************************************************************************)
(* categorize_ingredient                                                   *)
(***************************************************************************)

ProduceWords ==
    {Chars("carrot"), Chars("celery"), Chars("onion"), Chars("garlic"),
     Chars("tomato"), Chars("pepper"), Chars("kale"), Chars("lettuce"),
     Chars("spinach"), Chars("bean"), Chars("apple"), Chars("kiwi"),
     Chars("berry"), Chars("fruit"), Chars("lime"), Chars("lemon")}

ProteinWords ==
    {Chars("chicken"), Chars("beef"), Chars("pork"), Chars("fish"),
     Chars("turkey"), Chars("salmon"), Chars("tuna"), Chars("shrimp"),
     Chars("tofu")}

DairyWords ==
    {Chars("milk"), Chars("cheese"), Chars("yogurt"), Chars("butter"),
     Chars("cream"), Chars("cheddar"), Chars("mozzarella"), Chars("parmesan")}

SpiceWords ==
    {Chars("salt"), Chars("pepper"), Chars("cumin"), Chars("paprika"),
     Chars("oregano"), Chars("basil"), Chars("thyme"), Chars("cinnamon"),
     Chars("turmeric"), Chars("chili powder"), Chars("italian seasoning")}

ContainsAny(s, words) == \E w \in words : Contains(s, w)

categorize_ingredient(ingredient) ==
    LET ingredient_lower == Lower(ingredient)
    IN  IF ContainsAny(ingredient_lower, ProduceWords) THEN "produce"
        ELSE IF ContainsAny(ingredient_lower, ProteinWords) THEN "protein"
        ELSE IF ContainsAny(ingredient_lower, DairyWords) THEN "dairy"
        ELSE IF ContainsAny(ingredient_lower, SpiceWords) THEN "spices"
        ELSE "pantry"

(***************************************************************************)
(* parse_ingredients                                                       *)
(***************************************************************************)

STR_GrabIngredientsNL == Chars("Grab ingredients\n")
STR_CookEnjoy == Chars("Cook & enjoy")
STR_Grab == Chars("Grab")
IngredientMinLen == 3

\* \n(?:Cook & enjoy|$) matches at q.
IngredientsEndAt(text, q) ==
    /\ q <= Len(text)
    /\ text[q] = NL
    /\ (OccursAt(text, STR_CookEnjoy, q + 1) \/ AtDollar(text, q + 1))

\* re.search(r'Grab ingredients\n(.*?)\n(?:Cook & enjoy|$)', text, re.DOTALL):
\* the span (first, last) of group 1 in text, or None.  The lazy group ends
\* at the first newline, at or after its start, that the tail matches at.
IngredientsSpan(text) ==
    LET starts == {p + Len(STR_GrabIngredientsNL) :
                       p \in Occurrences(text, STR_GrabIngredientsNL)}
        ends(from) == {q \in from..Len(text) : IngredientsEndAt(text, q)}
    IN  IF starts = {} \/ ends(Min(starts)) = {} THEN None
        ELSE Some(<<Min(starts), Min(ends(Min(starts))) - 1>>)

\* The quantity pattern
\*   ^([\d\/\.\s]+(?:\([^)]+\))?\s*(?:cup|...|large)?s?)\s+(.+)$
\* Group 1 is A B? W U? S?; the choices below list, for each piece, the
\* index after it in the order the backtracking matcher tries them.
Units ==
    <<Chars("cup"), Chars("tbsp"), Chars("tsp"), Chars("oz"), Chars("lb"),
      Chars("fl oz"), Chars("pkg"), Chars("can"), Chars("bunch"),
      Chars("stick"), Chars("clove"), Chars("medium"), Chars("small"),
      Chars("large")>>

IsQtyChar(c) == IsDigit(c) \/ c = "/" \/ c = "." \/ IsSpace(c)

RECURSIVE QtyRunEnd(_, _)
QtyRunEnd(s, i) ==
    IF i <= Len(s) /\ IsQtyChar(s[i]) THEN QtyRunEnd(s, i + 1) ELSE i

\* hi, hi-1, ..., lo
Downto(hi, lo) == [k \in 1..(hi - lo + 1) |-> hi - k + 1]

\* [\d\/\.\s]+ from the start of the line, longest first.
AChoices(s) == Downto(QtyRunEnd(s, 1), 2)

\* (?:\([^)]+\))? at i: the parenthetical first, then nothing.
BChoices(s, i) ==
    LET closes == {j \in (i + 1)..Len(s) : s[j] = ")"}
    IN  IF i <= Len(s) /\ s[i] = "(" /\ closes # {} /\ Min(closes) >= i + 2
        THEN <<Min(closes) + 1, i>>
        ELSE <<i>>

\* \s* at i, longest first.
WChoices(s, i) == Downto(SpaceRunEnd(s, i), i)

\* (?:cup|...|large)? at i: the units in the order of the alternation, then
\* nothing.
RECURSIVE UnitEnds(_, _, _)
UnitEnds(s, i, units) ==
    IF units = <<>> THEN <<>>
    ELSE (IF OccursAt(s, Head(units), i) THEN <<i + Len(Head(units))>> ELSE <<>>)
             \o UnitEnds(s, i, Tail(units))

UChoices(s, i) == UnitEnds(s, i, Units) \o <<i>>

\* s? at i
SChoices(s, i) == IF i <= Len(s) /\ s[i] = "s" THEN <<i + 1, i>> ELSE <<i>>

PieceChoices(s, i, piece) ==
    CASE piece = "B" -> BChoices(s, i)
      [] piece = "W" -> WChoices(s, i)
      [] piece = "U" -> UChoices(s, i)
      [] piece = "S" -> SChoices(s, i)

\* The choices of a piece after each of the positions, in order.
RECURSIVE Expand(_, _, _)
Expand(s, positions, piece) ==
    IF positions = <<>> THEN <<>>
    ELSE PieceChoices(s, Head(positions), piece) \o Expand(s, Tail(positions), piece)

\* The index after group 1 for every way of matching it, in the order tried.
QuantityEnds(s) ==
    Expand(s, Expand(s, Expand(s, Expand(s, AChoices(s), "B"), "W"), "U"), "S")

\* \s+(.+)$ matches at i: whitespace, then at least one more character.
RestMatchesAt(s, i) == i <= Len(s) /\ IsSpace(s[i]) /\ i + 1 <= Len(s)

\* re.match of the quantity pattern: the index after group 1, or None.
RECURSIVE FirstMatching(_, _)
FirstMatching(s, ends) ==
    IF ends = <<>> THEN None
    ELSE IF RestMatchesAt(s, Head(ends)) THEN Some(Head(ends))
    ELSE FirstMatching(s, Tail(ends))

QuantityMatch(s) == FirstMatching(s, QuantityEnds(s))

\* The dict appended for one kept line.
Ingredient(line) ==
    LET quantity_match == QuantityMatch(line)
        e == quantity_match[1]
        quantity == IF quantity_match # None
                    THEN Strip(SubSeq(line, 1, e - 1)) ELSE <<>>
        name == IF quantity_match # None
                THEN Strip(SubSeq(line, SpaceRunEnd(line, e), Len(line)))
                ELSE line
    IN  [name |-> Lower(name),
         quantity |-> quantity,
         category |-> categorize_ingredient(line),
         original |-> line]

\* The loop's test for skipping a line.
SkipIngredientLine(line) ==
    line = <<>> \/ StartsWith(line, STR_Grab) \/ Len(line) < IngredientMinLen

RECURSIVE IngredientLoop(_)
IngredientLoop(lines) ==
    IF lines = <<>> THEN <<>>
    ELSE LET line == Strip(Head(lines))
         IN  (IF SkipIngredientLine(line) THEN <<>> ELSE <<Ingredient(line)>>)
                 \o IngredientLoop(Tail(lines))

parse_ingredients(text) ==
    LET span == IngredientsSpan(text)
    IN  IF span = None THEN <<>>
        ELSE IngredientLoop(Split(SubSeq(text, span[1][1], span[1][2])))

(***************************************************************************)
(* parse_instructions                                                      *)
(***************************************************************************)

STR_CookEnjoyNL == Chars("Cook & enjoy\n")
STR_of == Chars("of")

\* \n\d+\sof\s\d+ matches at q (the page footer "3 of 4").
FooterAt(text, q) ==
    LET d == DigitRunEnd(text, q + 1)
    IN  /\ q <= Len(text)
        /\ text[q] = NL
        /\ d > q + 1
        /\ d <= Len(text) /\ IsSpace(text[d])
        /\ OccursAt(text, STR_of, d + 1)
        /\ d + 3 <= Len(text) /\ IsSpace(text[d + 3])
        /\ d + 4 <= Len(text) /\ IsDigit(text[d + 4])

\* re.search(r'Cook & enjoy\n(.*?)(?:\n\d+\sof\s\d+|$)', text, re.DOTALL):
\* group 1, or None.
InstructionsSection(text) ==
    LET starts == {p + Len(STR_CookEnjoyNL) : p \in Occurrences(text, STR_CookEnjoyNL)}
        ends(from) == {q \in from..(Len(text) + 1) :
                           FooterAt(text, q) \/ AtDollar(text, q)}
    IN  IF starts = {} THEN None
        ELSE Some(SubSeq(text, Min(starts), Min(ends(Min(starts))) - 1))

\* re.match(r'^(\d+)\s*$', line): group 1, or None.
StepMatch(line) ==
    LET d == DigitRunEnd(line, 1)
    IN  IF d > 1 /\ \E w \in d..SpaceRunEnd(line, d) : AtDollar(line, w)
        THEN Some(SubSeq(line, 1, d - 1))
        ELSE None

\* The dict appended when a step is saved.
SavedStep(current_step, current_text) ==
    [step |-> current_step[1],
     text |-> Strip(JoinWith(current_text, <<" ">>))]

\* The test written `if current_step and current_text`: step 0 is falsy.
HasOpenStepTruthy(current_step, current_text) ==
    current_step # None /\ current_step[1] # 0 /\ current_text # <<>>

\* The test before each append: current_step is not None and current_text.
HasOpenStep(current_step, current_text) ==
    current_step # None /\ current_text # <<>>

\* The for loop over the section's lines, then the save of the last step.
RECURSIVE StepLoop(_, _, _, _)
StepLoop(lines, current_step, current_text, instructions) ==
    IF lines = <<>>
    THEN IF HasOpenStep(current_step, current_text)
         THEN Append(instructions, SavedStep(current_step, current_text))
         ELSE instructions
    ELSE LET line == Strip(Head(lines))
             step_match == StepMatch(line)
         IN  IF line = <<>>
             THEN StepLoop(Tail(lines), current_step, current_text, instructions)
             ELSE IF step_match # None
             THEN StepLoop(Tail(lines), Some(ToInt(step_match[1])), <<>>,
                           IF HasOpenStep(current_step, current_text)
                           THEN Append(instructions,
                                       SavedStep(current_step, current_text))
                           ELSE instructions)
             ELSE StepLoop(Tail(lines), current_step,
                           IF current_step # None
                           THEN Append(current_text, line) ELSE current_text,
                           instructions)

parse_instructions(text) ==
    LET section == InstructionsSection(text)
    IN  IF section = None THEN <<>>
        ELSE StepLoop(Split(section[1]), None, <<>>, <<>>)

(***************************************************************************)
(* parse_recipe_pdf                                                        *)
(***************************************************************************)

\* The recipe dict assembled from the extracted text.
Recipe(text) ==
    LET metadata == parse_title_and_metadata(text)
    IN  [id |-> generate_recipe_id(metadata.title),
         title |-> metadata.title,
         cookTime |-> metadata.cookTime,
         servings |-> metadata.servings,
         cookware |-> parse_cookware(text),
         ingredients |-> parse_ingredients(text),
         instructions |-> parse_instructions(text),
         tags |-> <<>>]

\* The warning printed when an essential list is empty.
MissingEssentials(recipe) ==
    recipe.ingredients = <<>> \/ recipe.instructions = <<>>

\* parse_recipe_pdf giving up on a recipe without ingredients or
\* instructions: a return None after the warning.
parse_recipe_pdf_strict(text) ==
    IF text = <<>> \/ MissingEssentials(Recipe(text)) THEN None
    ELSE Some(Recipe(text))

\* parse_recipe_pdf on a file whose extracted text is `text`: None for an
\* empty text, else the recipe.
parse_recipe_pdf(text) ==
    IF text = <<>> THEN None ELSE Some(Recipe(text))

(***************************************************************************)
(* Function runs: one call of a parser on a bounded input.                 *)
(***************************************************************************)

\* All sequences over S of length at most n.
SeqsUpTo(S, n) == UNION {[1..k -> S] : k \in 0..n}

\* The pipeline's variables while a single function is run.
NoPipeline ==
    /\ args = None
    /\ fs = None
    /\ queue = <<>>
    /\ recipes = <<>>
    /\ failed = <<>>
    /\ console = <<>>
    /\ wrote = FALSE
    /\ vlog = <<>>

pipelineVars == <<args, fs, queue, recipes, failed, console, wrote, vlog>>

InitCall(fn, inputs) ==
    /\ pc = "call"
    /\ call \in {[fn |-> fn, arg |-> x] : x \in inputs}
    /\ ret = None
    /\ NoPipeline

Return(value) ==
    /\ pc = "call"
    /\ pc' = "return"
    /\ ret' = value
    /\ UNCHANGED <<call, pipelineVars>>

\* ---- generate_recipe_id on every title over TitleAlphabet

MaxTitleLen == 4

TitleAlphabet == {"A", "b", "3", "_", "U+00C9", "U+00E9", "!", " ", "-"}

Titles == SeqsUpTo(TitleAlphabet, MaxTitleLen)

InitId == InitCall("generate_recipe_id", Titles)

CallGenerateRecipeId ==
    /\ call.fn = "generate_recipe_id"
    /\ Return(generate_recipe_id(call.arg))

SpecId == InitId /\ [][CallGenerateRecipeId]_vars

\* ---- parse_title_and_metadata on texts of up to MaxMetaLines lines

MaxMetaLines == 3

\* '<N> minutes, <M> servings'
FormLine(n, m) == n \o Chars(" minutes, ") \o m \o Chars(" servings")

FormNumbers == {Chars("0"), Chars("25"), Chars("4")}

MetaLines ==
    {Chars("Creamy Garlic Chicken Pasta"),
     Chars("Lemon Herb Rice Bowl"),
     Chars("  Spicy Black Bean Tacos Night  "),
     Chars("Find cookware for this recipe"),
     Chars("minutes and servings vary"),
     Chars("Mealime")}
    \cup {FormLine(n, m) : n \in {Chars("0"), Chars("25")}, m \in {Chars("0"), Chars("4")}}

\* The texts whose lines are the sequences of up to n lines of a corpus.
TextsOf(corpus, n) == {JoinWith(ls, <<NL>>) : ls \in SeqsUpTo(corpus, n)}

InitMeta == InitCall("parse_title_and_metadata", TextsOf(MetaLines, MaxMetaLines))

CallParseTitleAndMetadata ==
    /\ call.fn = "parse_title_and_metadata"
    /\ Return(parse_title_and_metadata(call.arg))

SpecMeta == InitMeta /\ [][CallParseTitleAndMetadata]_vars

\* ---- parse_ingredients on texts of up to MaxIngrLines lines, each text
\* ending in the newline that extract_text_from_pdf puts after a page

MaxIngrLines == 4

IngrLines ==
    {Chars("Grab ingredients"), Chars("Cook & enjoy"), Chars("1 cup flour"),
     Chars("2 medium carrots"), Chars("Mix well."), Chars("1"), <<>>}

PageTextsOf(corpus, n) == {t \o <<NL>> : t \in TextsOf(corpus, n)}

InitIngr == InitCall("parse_ingredients", PageTextsOf(IngrLines, MaxIngrLines))

CallParseIngredients ==
    /\ call.fn = "parse_ingredients"
    /\ Return(parse_ingredients(call.arg))

SpecIngr == InitIngr /\ [][CallParseIngredients]_vars

\* ---- parse_instructions on a 'Cook & enjoy' line followed by up to
\* MaxInstrLines lines

MaxInstrLines == 4

InstrLines ==
    {Chars("1"), Chars("2"), Chars("0"), Chars(" 10 "), Chars("Preheat oven."),
     Chars("Bake 20 min"), Chars("3 ribs"), Chars("2 of 3"), <<>>}

InstrTexts ==
    {STR_CookEnjoyNL \o t : t \in TextsOf(InstrLines, MaxInstrLines)}

InitInstr == InitCall("parse_instructions", InstrTexts)

CallParseInstructions ==
    /\ call.fn = "parse_instructions"
    /\ Return(parse_instructions(call.arg))

SpecInstr == InitInstr /\ [][CallParseInstructions]_vars

(***************************************************************************)
(* The file system and the command line                                    *)
(***************************************************************************)

InputDir == "recipe-pdfs"
OutPath == "public/recipes.json"

\* s.endswith(p)
EndsWith(s, p) == Len(s) >= Len(p) /\ SubSeq(s, Len(s) - Len(p) + 1, Len(s)) = p

\* The code points of the characters of file names, in increasing order.
AsciiOrder == Chars(".0123456789") \o UpperLetters \o Chars("_") \o LowerLetters

Ord(c) == CHOOSE i \in 1..Len(AsciiOrder) : AsciiOrder[i] = c

\* a < b for two names (str comparison).
RECURSIVE NameLess(_, _)
NameLess(a, b) ==
    IF b = <<>> THEN FALSE
    ELSE IF a = <<>> THEN TRUE
    ELSE IF Head(a) = Head(b) THEN NameLess(Tail(a), Tail(b))
    ELSE Ord(Head(a)) < Ord(Head(b))

\* sorted(files), by name.
SortedByName(files) ==
    [j \in 1..Cardinality(files) |->
        CHOOSE f \in files :
            Cardinality({g \in files : NameLess(g.name, f.name)}) = j - 1]

\* input_path.glob('*.pdf')
GlobPdf(dir) == {f \in dir : EndsWith(f.name, Chars(".pdf"))}

\* The text PyPDF2 extracts from the PDF files of the bounded runs: none
\* (the reader fails, or the file has no page), a whole recipe, a recipe
\* without an ingredients section, one without an instructions section,
\* and a single blank page.
FullText ==
    Chars("Creamy Garlic Chicken Pasta\n25 minutes, 4 servings\nFind cookware\nPot\nGrab ingredients\n1 cup flour\nCook & enjoy\n1\nBoil pasta.\n1 of 1\n")
NoIngredientsText ==
    Chars("One-Pot Veggie Curry Bowl\n40 minutes, 2 servings\nCook & enjoy\n1\nSimmer.\n")
NoInstructionsText ==
    Chars("Grab ingredients\n2 medium carrots\n")
BlankText == Chars("\n")

PdfTexts == {<<>>, FullText, NoIngredientsText, NoInstructionsText, BlankText}

\* What happens when parse_recipe_pdf runs on a file: it works on the
\* extracted text, or an exception is raised inside it.
Outcomes ==
    {[text |-> t, raises |-> FALSE] : t \in PdfTexts}
        \cup {[text |-> <<>>, raises |-> TRUE]}

MaxPdfs == 2

PdfName(i) == Chars("recipe") \o <<Digits[i + 1]>> \o Chars(".pdf")

NotesFile == [name |-> Chars("notes.txt"), text |-> <<>>, raises |-> FALSE]

\* The files of a directory with k PDF files of outcomes o, beside a text
\* file.
FilesOf(o, k) ==
    {[name |-> PdfName(i), text |-> o[i].text, raises |-> o[i].raises] : i \in 1..k}
        \cup {NotesFile}

\* The directories: the empty one, and up to MaxPdfs PDF files with any
\* outcomes beside a text file.
Directories ==
    {{}} \cup UNION {{FilesOf(o, k) : o \in [1..k -> Outcomes]} : k \in 0..MaxPdfs}

\* json.dump(data, f): the file then holds the JSON text of data.
JsonDump(data) == [kind |-> "json", type |-> "object", value |-> data]

AnIngredient ==
    [name |-> Chars("flour"), quantity |-> Chars("1 cup"),
     category |-> "pantry", original |-> Chars("1 cup flour")]

AStep == [step |-> 1, text |-> Chars("Stir.")]

\* A document of an earlier run, edited by hand: its second recipe has an
\* empty title and no instructions key.
StaleDoc ==
    [recipes |->
        <<[id |-> Chars("old-soup"), title |-> Chars("Old Soup"),
           ingredients |-> <<AnIngredient>>, instructions |-> <<AStep>>],
          [id |-> Chars("draft"), title |-> <<>>,
           ingredients |-> <<AnIngredient>>]>>,
     metadata |-> [total |-> 2, source |-> InputDir]]

\* The output path before the run: its parent directory may be missing;
\* the file may be absent, hold text that is no JSON, hold a JSON array, or
\* hold an earlier document.
JsonStates ==
    {[parent |-> FALSE, content |-> [kind |-> "absent"]],
     [parent |-> TRUE, content |-> [kind |-> "absent"]],
     [parent |-> TRUE, content |-> [kind |-> "malformed"]],
     [parent |-> TRUE, content |-> [kind |-> "json", type |-> "array", value |-> <<>>]],
     [parent |-> TRUE, content |-> JsonDump(StaleDoc)]}

FsSet ==
    {[dir |-> d, json |-> j] :
        d \in {None} \cup {Some(x) : x \in Directories}, j \in JsonStates}

ArgsSet ==
    {[input |-> i, output |-> OutPath, validate |-> v, validate_only |-> vo] :
        i \in {None, Some(InputDir)}, v \in BOOLEAN, vo \in {None, Some(OutPath)}}

\* A printed line, by what it reports.
Line(ev, what) == [ev |-> ev, what |-> what]

(***************************************************************************)
(* main                                                                    *)
(***************************************************************************)

Init ==
    /\ pc = "main"
    /\ call = None
    /\ ret = None
    /\ args \in ArgsSet
    /\ fs \in FsSet
    /\ queue = <<>>
    /\ recipes = <<>>
    /\ failed = <<>>
    /\ console = <<>>
    /\ wrote = FALSE
    /\ vlog = <<>>

\* if args.validate_only: validate_json(args.validate_only); return
MainValidateOnly ==
    /\ pc = "main"
    /\ args.validate_only # None /\ args.validate_only[1] # ""
    /\ pc' = "validate_json"
    /\ call' = [fn |-> "validate_json", arg |-> args.validate_only[1]]
    /\ UNCHANGED <<ret, args, fs, queue, recipes, failed, console, wrote, vlog>>

\* if not args.input: parser.error(...)
MainUsageError ==
    /\ pc = "main"
    /\ ~(args.validate_only # None /\ args.validate_only[1] # "")
    /\ args.input = None
    /\ pc' = "usage_error"
    /\ console' = Append(console, Line("usage_error", <<>>))
    /\ UNCHANGED <<call, ret, args, fs, queue, recipes, failed, wrote, vlog>>

\* process_directory(args.input, args.output)
MainConvert ==
    /\ pc = "main"
    /\ ~(args.validate_only # None /\ args.validate_only[1] # "")
    /\ args.input # None
    /\ pc' = "process_directory"
    /\ call' = [fn |-> "process_directory", arg |-> args.input[1]]
    /\ UNCHANGED <<ret, args, fs, queue, recipes, failed, console, wrote, vlog>>

\* if args.validate: validate_json(args.output)
MainAfterConvert ==
    /\ pc = "after_convert"
    /\ IF args.validate
       THEN /\ pc' = "validate_json"
            /\ call' = [fn |-> "validate_json", arg |-> args.output]
       ELSE /\ pc' = "exit"
            /\ UNCHANGED call
    /\ UNCHANGED <<ret, args, fs, queue, recipes, failed, console, wrote, vlog>>

(***************************************************************************)
(* process_directory                                                       *)
(***************************************************************************)

\* The directory's PDF files, when the directory exists.
PdfFiles == IF fs.dir = None THEN {} ELSE GlobPdf(fs.dir[1])

\* The early returns without the test of pdf_files.
NothingToConvertNoDirectory(dir) == dir = None

\* The two early returns: the directory does not exist, or holds no PDF.
NothingToConvert(dir) == dir = None \/ GlobPdf(dir[1]) = {}

ProcessDirectoryStart ==
    /\ pc = "process_directory"
    /\ IF NothingToConvert(fs.dir)
       THEN /\ console' = Append(console,
                   Line(IF fs.dir = None THEN "error_no_directory"
                        ELSE "error_no_pdf_files", <<>>))
            /\ pc' = "after_convert"
            /\ UNCHANGED <<queue, recipes, failed>>
       ELSE /\ console' = Append(console, Line("found", Cardinality(PdfFiles)))
            /\ queue' = SortedByName(PdfFiles)
            /\ recipes' = <<>>
            /\ failed' = <<>>
            /\ pc' = "loop"
    /\ UNCHANGED <<call, ret, args, fs, wrote, vlog>>

\* parse_recipe_pdf on each text of the bounded runs, evaluated once.
ParsedTexts == [t \in PdfTexts |-> parse_recipe_pdf(t)]

\* recipe = parse_recipe_pdf(str(pdf_file)), for a file that does not raise.
ParsedPdf(f) == ParsedTexts[f.text]

\* What parse_recipe_pdf prints for file f.
ParsePrints(f) ==
    <<Line("processing", f.name)>> \o
    (IF f.text = <<>> THEN <<Line("warn_no_text", f.name)>>
     ELSE (IF ParsedPdf(f) # None /\ MissingEssentials(ParsedPdf(f)[1])
           THEN <<Line("warn_missing", f.name)>> ELSE <<>>)
              \o (IF ParsedPdf(f) # None
                  THEN <<Line("extracted", f.name)>> ELSE <<>>))

\* The loop body on file f: the recipes list after it.
RecipesAfter(rs, f) ==
    IF ~f.raises /\ ParsedPdf(f) # None
    THEN Append(rs, ParsedPdf(f)[1])
    ELSE rs

\* The loop body on file f: the failed list after it.
FailedAfter(fl, f) ==
    IF f.raises \/ ParsedPdf(f) = None
    THEN Append(fl, f.name)
    ELSE fl

\* The loop inside the try block: an exception ends it.
RestAfterAbort(q, f) == IF f.raises THEN <<>> ELSE Tail(q)

\* The files the loop still visits after file f, the head of q.
RestAfter(q, f) == Tail(q)

ProcessDirectoryLoop ==
    /\ pc = "loop"
    /\ queue # <<>>
    /\ LET pdf_file == Head(queue)
       IN  /\ recipes' = RecipesAfter(recipes, pdf_file)
           /\ failed' = FailedAfter(failed, pdf_file)
           /\ queue' = RestAfter(queue, pdf_file)
           /\ console' = console \o
                  (IF pdf_file.raises
                   THEN <<Line("error_processing", pdf_file.name)>>
                   ELSE ParsePrints(pdf_file))
    /\ UNCHANGED <<pc, call, ret, args, fs, wrote, vlog>>

\* output_data
OutputData(rs, input_dir) ==
    [recipes |-> rs,
     metadata |-> [total |-> Len(rs),
                   generated |-> "Generated by pdf_to_json.py",
                   source |-> input_dir]]

ProcessDirectoryWrite ==
    /\ pc = "loop"
    /\ queue = <<>>
    /\ fs' = [fs EXCEPT !.json =
                  [parent |-> TRUE,
                   content |-> JsonDump(OutputData(recipes, call.arg))]]
    /\ wrote' = TRUE
    /\ console' = console \o <<Line("processed", Len(recipes))>>
                      \o (IF failed # <<>> THEN <<Line("failed", failed)>> ELSE <<>>)
                      \o <<Line("output_written", <<>>)>>
    /\ pc' = "after_convert"
    /\ UNCHANGED <<call, ret, args, queue, recipes, failed, vlog>>

(***************************************************************************)
(* validate_json                                                           *)
(***************************************************************************)

\* The content open() and json.load() find at a path.
FileAt(files, path) ==
    IF path = OutPath THEN files.json.content ELSE [kind |-> "absent"]

\* The test written `key not in d`.
FalsyAbsentOnly(d, key) == key \notin DOMAIN d

\* not d.get(key): the key is absent, or its value is empty.
Falsy(d, key) == key \notin DOMAIN d \/ d[key] = <<>>

\* d.get(key, default)
Get(d, key, default) == IF key \in DOMAIN d THEN d[key] ELSE default

\* The list `missing` of one recipe.
MissingFields(recipe) ==
    (IF Falsy(recipe, "title") THEN <<"title">> ELSE <<>>)
        \o (IF Falsy(recipe, "ingredients") THEN <<"ingredients">> ELSE <<>>)
        \o (IF Falsy(recipe, "instructions") THEN <<"instructions">> ELSE <<>>)

\* The list `issues`: for each recipe with missing fields, the parts of its
\* message "Recipe {i+1} ({id}): missing {fields}".
Issues(rs) ==
    SelectSeq([i \in 1..Len(rs) |->
                  [recipe |-> i,
                   id |-> Get(rs[i], "id", Chars("unknown")),
                   missing |-> MissingFields(rs[i])]],
              LAMBDA issue : issue.missing # <<>>)

\* sum(len(r.get(key, [])) for r in recipes)
RECURSIVE TotalLen(_, _)
TotalLen(rs, key) ==
    IF rs = <<>> THEN 0
    ELSE Len(Get(Head(rs), key, <<>>)) + TotalLen(Tail(rs), key)

\* The try block on a file's content: the exception it ends with ("none"
\* when it runs to its end), the issues it collected and what it printed.
TryBlock(content) ==
    IF content.kind = "absent"
    THEN [exc |-> "FileNotFoundError", issues |-> <<>>, prints |-> <<>>]
    ELSE IF content.kind = "malformed"
    THEN [exc |-> "JSONDecodeError", issues |-> <<>>, prints |-> <<>>]
    ELSE IF content.type # "object"
    THEN [exc |-> "AttributeError", issues |-> <<>>, prints |-> <<>>]
    ELSE LET rs == Get(content.value, "recipes", <<>>)
             issues == Issues(rs)
             checked == <<Line("valid_json", Len(rs)),
                          IF issues # <<>>
                          THEN Line("validation_warnings", Len(issues))
                          ELSE Line("all_have_required_fields", <<>>),
                          Line("total_recipes", Len(rs)),
                          Line("total_ingredients", TotalLen(rs, "ingredients")),
                          Line("total_steps", TotalLen(rs, "instructions"))>>
         IN  IF Len(rs) = 0
             THEN [exc |-> "ZeroDivisionError", issues |-> issues, prints |-> checked]
             ELSE [exc |-> "none", issues |-> issues,
                   prints |-> checked \o <<Line("avg_ingredients", <<>>),
                                           Line("avg_steps", <<>>)>>]

\* The classes derived from Exception among those the try block raises.
ExceptionClasses ==
    {"FileNotFoundError", "JSONDecodeError", "AttributeError", "ZeroDivisionError"}

\* The second clause written `except OSError`.
HandledOSErrorOnly(exc) ==
    IF exc = "none" THEN "completed"
    ELSE IF exc = "JSONDecodeError" THEN "invalid_json"
    ELSE IF exc = "FileNotFoundError" THEN "error"
    ELSE "raised"

\* The except clauses, in order: how the call ends for an exception.
Handled(exc) ==
    IF exc = "none" THEN "completed"
    ELSE IF exc = "JSONDecodeError" THEN "invalid_json"
    ELSE IF exc \in ExceptionClasses THEN "error"
    ELSE "raised"

ValidateJson ==
    /\ pc = "validate_json"
    /\ LET content == FileAt(fs, call.arg)
           try == TryBlock(content)
           outcome == Handled(try.exc)
       IN  /\ vlog' = Append(vlog, [file |-> call.arg,
                                    read |-> content,
                                    written_by_run |-> wrote,
                                    exc |-> try.exc,
                                    outcome |-> outcome,
                                    issues |-> try.issues])
           /\ console' = console \o <<Line("validating", <<>>)>> \o try.prints
                             \o (IF outcome \in {"invalid_json", "error"}
                                 THEN <<Line(outcome, try.exc)>> ELSE <<>>)
           /\ pc' = IF outcome = "raised" THEN "traceback" ELSE "exit"
    /\ UNCHANGED <<call, ret, args, fs, queue, recipes, failed, wrote>>

Next ==
    \/ MainValidateOnly
    \/ MainUsageError
    \/ MainConvert
    \/ ProcessDirectoryStart
    \/ ProcessDirectoryLoop
    \/ ProcessDirectoryWrite
    \/ MainAfterConvert
    \/ ValidateJson

Spec == Init /\ [][Next]_vars

(***************************************************************************)
(* Properties of the parsers                                               *)
(***************************************************************************)

Returned(fn) == pc = "return" /\ call.fn = fn

IsSlugChar(c) == c \in Range(LowerLetters) \cup Range(Digits) \cup {"-"}

\* C1: for every title, generate_recipe_id(title) is lowercase, contains
\* only characters of [a-z0-9-], has no leading or trailing hyphen and no
\* two consecutive hyphens.
C1_IdIsSlug ==
    Returned("generate_recipe_id") =>
        /\ \A i \in 1..Len(ret) : IsSlugChar(ret[i])
        /\ ret # <<>> => (ret[1] # "-" /\ ret[Len(ret)] # "-")
        /\ \A i \in 1..(Len(ret) - 1) : ~(ret[i] = "-" /\ ret[i + 1] = "-")

\* The stripped, non-empty lines of the captured 'Cook & enjoy' section.
SectionLines(text) ==
    LET raw == Split(InstructionsSection(text)[1])
    IN  SelectSeq([i \in 1..Len(raw) |-> Strip(raw[i])], LAMBDA l : l # <<>>)

IsBareNumber(l) == l # <<>> /\ \A i \in 1..Len(l) : IsDigit(l[i])

\* The index of the first bare-number line after line k, or Len(L) + 1.
NextNumber(L, k) ==
    Min({j \in (k + 1)..Len(L) : IsBareNumber(L[j])} \cup {Len(L) + 1})

\* The bare-number lines followed by at least one line of text.
StepsWithText(L) ==
    {k \in 1..Len(L) : IsBareNumber(L[k]) /\ NextNumber(L, k) > k + 1}

\* The elements of a finite set of integers in increasing order.
Ascending(S) ==
    [j \in 1..Cardinality(S) |->
        CHOOSE k \in S : Cardinality({m \in S : m <= k}) = j]

ExpectedSteps(L) ==
    LET ks == Ascending(StepsWithText(L))
    IN  [j \in 1..Len(ks) |->
            [step |-> ToInt(L[ks[j]]),
             text |-> JoinWith(SubSeq(L, ks[j] + 1, NextNumber(L, ks[j]) - 1),
                               <<" ">>)]]

\* C5: parse_instructions is the two-state accumulator: lines before the
\* first bare-number line are discarded, each bare-number line N opens step
\* N, and the result holds, in detection order, one entry {step: N, text}
\* for each bare-number line followed by at least one line of text before
\* the next bare-number line or the end, text being those lines joined by
\* single spaces; a step without text gives no entry and the last open step
\* is flushed.
C5_TwoStateAccumulator ==
    Returned("parse_instructions") => ret = ExpectedSteps(SectionLines(call.arg))

\* A call where text precedes the first step, a step has no text, and the
\* last step is flushed at the end of the scan.
C5_Witness ==
    /\ Returned("parse_instructions")
    /\ LET L == SectionLines(call.arg)
       IN  /\ Len(L) = 4
           /\ ~IsBareNumber(L[1])
           /\ IsBareNumber(L[2]) /\ IsBareNumber(L[3])
           /\ ~IsBareNumber(L[4])
           /\ ret = <<[step |-> ToInt(L[3]), text |-> L[4]]>>

\* Line i of lines qualifies as the title: stripped length over 20, not
\* starting with 'Find cookware', the next line holding 'minutes' and
\* 'servings'.
Qualifies(lines, i) ==
    /\ Len(Strip(lines[i])) > 20
    /\ ~StartsWith(Strip(lines[i]), Chars("Find cookware"))
    /\ i < Len(lines)
    /\ Contains(lines[i + 1], Chars("minutes"))
    /\ Contains(lines[i + 1], Chars("servings"))

\* C6: parse_title_and_metadata stops at the first qualifying line; when
\* the next line is '<N> minutes, <M> servings' it returns that line as the
\* title, '<N> minutes' as cookTime and M as servings, for any non-negative
\* N and M; when no line qualifies it returns 'Unknown Recipe',
\* '30 minutes' and 2.
C6_FirstTitleWins ==
    Returned("parse_title_and_metadata") =>
        LET lines == Split(call.arg)
            Q == {i \in 1..Len(lines) : Qualifies(lines, i)}
        IN  IF Q = {}
            THEN ret = [title |-> Chars("Unknown Recipe"),
                        cookTime |-> Chars("30 minutes"),
                        servings |-> 2]
            ELSE \A n, m \in FormNumbers :
                     Strip(lines[Min(Q) + 1]) = FormLine(n, m) =>
                         ret = [title |-> Strip(lines[Min(Q)]),
                                cookTime |-> n \o Chars(" minutes"),
                                servings |-> ToInt(m)]

\* The lines of the text strictly between the first 'Grab ingredients'
\* line and the first 'Cook & enjoy' line after it (or the end of text).
LinesBetweenAnchors(text) ==
    LET lines == Split(text)
        grabs == {i \in 1..Len(lines) : lines[i] = Chars("Grab ingredients")}
        cooks(g) == {i \in (g + 1)..Len(lines) : lines[i] = Chars("Cook & enjoy")}
                        \cup {Len(lines) + 1}
    IN  IF grabs = {} THEN {}
        ELSE {Strip(lines[i]) : i \in (Min(grabs) + 1)..(Min(cooks(Min(grabs))) - 1)}

\* C8: parse_ingredients turns into ingredients only lines strictly between
\* the 'Grab ingredients' line and the first following 'Cook & enjoy' line
\* (or the end of text), also when the section between them is empty: no
\* line at or after 'Cook & enjoy' is the original of a returned ingredient.
C8_OnlySectionLines ==
    Returned("parse_ingredients") =>
        \A i \in 1..Len(ret) : ret[i].original \in LinesBetweenAnchors(call.arg)

(***************************************************************************)
(* Properties of the run                                                   *)
(***************************************************************************)

\* The document at the output path, when it is a JSON object.
OnDisk == fs.json.content.value

\* The files process_directory has to visit, in the order of the loop.
AllPdfs == SortedByName(PdfFiles)

\* The files the loop has visited.
Visited == SubSeq(AllPdfs, 1, Len(AllPdfs) - Len(queue))

\* How parse_recipe_pdf ends on a file.
FileKind(f) ==
    IF f.raises THEN "exception"
    ELSE IF ParsedPdf(f) = None THEN "none" ELSE "recipe"

\* C2: whatever each file's outcome (a recipe, None, an exception), the
\* loop visits every file in order, each visited file is accounted for
\* exactly once (its recipe in recipes, or its name in failed), an
\* exception does not stop the loop, and the written metadata.total is the
\* number of recipes of the document.
C2_EveryFileAccountedOnce ==
    (pc = "loop" \/ wrote) =>
        LET kept == SelectSeq(Visited, LAMBDA f : FileKind(f) = "recipe")
            lost == SelectSeq(Visited, LAMBDA f : FileKind(f) # "recipe")
        IN  /\ Len(queue) <= Len(AllPdfs)
            /\ queue = SubSeq(AllPdfs, Len(Visited) + 1, Len(AllPdfs))
            /\ recipes = [i \in 1..Len(kept) |-> ParsedPdf(kept[i])[1]]
            /\ failed = [i \in 1..Len(lost) |-> lost[i].name]
            /\ Len(recipes) + Len(failed) = Len(Visited)
            /\ wrote => /\ queue = <<>>
                        /\ OnDisk.recipes = recipes
                        /\ OnDisk.metadata.total = Len(OnDisk.recipes)

\* The document is written although the first file raised: the second
\* file's recipe is in it.
C2_Witness ==
    /\ wrote
    /\ Len(AllPdfs) = 2
    /\ AllPdfs[1].raises
    /\ failed = <<AllPdfs[1].name>>
    /\ Len(OnDisk.recipes) = 1
    /\ OnDisk.metadata.total = 1

\* The input directory is missing or holds no file with a .pdf suffix.
NoPdfInput ==
    fs.dir = None \/ ~\E f \in fs.dir[1] : EndsWith(f.name, Chars(".pdf"))

\* C3: process_directory on a directory that does not exist or holds no
\* .pdf file writes no output file (no parent directory is created, a file
\* already at the output path is left as it is), prints an error and
\* returns.
C3_NothingToConvertWritesNothing ==
    [][(pc = "process_directory" /\ NoPdfInput) =>
           /\ fs' = fs
           /\ wrote' = FALSE
           /\ pc' = "after_convert"
           /\ Len(console') = Len(console) + 1
           /\ console'[Len(console')].ev \in {"error_no_directory", "error_no_pdf_files"}]_vars

\* process_directory has returned from a directory holding only a text
\* file; the earlier document is still at the output path.
C3_Witness ==
    /\ pc = "after_convert"
    /\ fs.dir = Some({NotesFile})
    /\ ~wrote
    /\ fs.json = [parent |-> TRUE, content |-> JsonDump(StaleDoc)]
    /\ console = <<Line("error_no_pdf_files", <<>>)>>

\* The recipe the parsers assemble from each non-empty text.
ExpectedRecipe == [t \in PdfTexts \ {<<>>} |-> Recipe(t)]

Printed(ev, what) ==
    \E i \in 1..Len(console) : console[i].ev = ev /\ console[i].what = what

\* C4: parse_recipe_pdf returns None, so that the file is recorded as
\* failed, exactly when the extracted text is empty; for a non-empty text
\* the recipe is returned and is in the output document, also when its
\* ingredients or instructions are empty, and then a warning is printed.
C4_NoneOnlyForEmptyText ==
    wrote =>
        \A f \in PdfFiles :
            ~f.raises =>
                /\ (\E i \in 1..Len(failed) : failed[i] = f.name) <=> f.text = <<>>
                /\ f.text # <<>> =>
                       /\ \E i \in 1..Len(OnDisk.recipes) :
                              OnDisk.recipes[i] = ExpectedRecipe[f.text]
                       /\ Printed("warn_missing", f.name) <=>
                              (\/ ExpectedRecipe[f.text].ingredients = <<>>
                               \/ ExpectedRecipe[f.text].instructions = <<>>)

\* A file without text is in failed, and a recipe without ingredients is
\* in the document written.
C4_Witness ==
    /\ wrote
    /\ Len(AllPdfs) = 2
    /\ AllPdfs[1].text = <<>> /\ ~AllPdfs[1].raises
    /\ AllPdfs[2].text = NoIngredientsText
    /\ failed = <<AllPdfs[1].name>>
    /\ Len(OnDisk.recipes) = 1
    /\ OnDisk.recipes[1].ingredients = <<>>
    /\ OnDisk.recipes[1].instructions # <<>>
    /\ Printed("warn_missing", AllPdfs[2].name)

RequiredFields == {"title", "ingredients", "instructions"}

\* The required fields that a recipe lacks or holds empty.
AbsentOrEmpty(r) == {k \in RequiredFields : k \notin DOMAIN r \/ r[k] = <<>>}

\* A call of validate_json that read a JSON object.
ReadDocument(v) == v.read.kind = "json" /\ v.read.type = "object"

\* C7: validate_json records an issue for a recipe if and only if its
\* title, ingredients or instructions is absent or empty, one issue per
\* such recipe, naming those fields; a written document whose recipes are
\* all complete gives no issue, and a recipe of the soft-failure path gives
\* exactly one.
C7_IssueIffFieldMissing ==
    \A n \in 1..Len(vlog) :
        ReadDocument(vlog[n]) =>
            LET rs == vlog[n].read.value.recipes
                issues == vlog[n].issues
            IN  /\ \A i \in 1..Len(rs) :
                       Cardinality({j \in 1..Len(issues) : issues[j].recipe = i})
                           = IF AbsentOrEmpty(rs[i]) = {} THEN 0 ELSE 1
                /\ \A j \in 1..Len(issues) :
                       /\ issues[j].recipe \in 1..Len(rs)
                       /\ Range(issues[j].missing) = AbsentOrEmpty(rs[issues[j].recipe])
                       /\ Len(issues[j].missing) = Cardinality(AbsentOrEmpty(rs[issues[j].recipe]))

\* The document this run wrote holds a complete recipe and one without
\* ingredients; validation reports the second, and only it.
C7_Witness ==
    /\ Len(vlog) = 1
    /\ vlog[1].written_by_run
    /\ ReadDocument(vlog[1])
    /\ Len(vlog[1].read.value.recipes) = 2
    /\ AbsentOrEmpty(vlog[1].read.value.recipes[1]) = {}
    /\ vlog[1].read.value.recipes[2].ingredients = <<>>
    /\ Len(vlog[1].issues) = 1
    /\ vlog[1].issues[1].recipe = 2
    /\ vlog[1].issues[1].missing = <<"ingredients">>

\* The number of recipes of the document a call read.
RecipeCount(v) ==
    IF "recipes" \in DOMAIN v.read.value THEN Len(v.read.value.recipes) ELSE 0

\* C9: no exception leaves validate_json: a missing file and a document
\* with zero recipes end in the generic error path, malformed JSON in the
\* JSON-parse error path, and only a document with at least one recipe
\* reaches the end of the statistics, both averages printed.
C9_NoExceptionEscapes ==
    /\ pc # "traceback"
    /\ \A n \in 1..Len(vlog) :
           LET v == vlog[n]
           IN  /\ v.outcome \in {"completed", "invalid_json", "error"}
               /\ v.read.kind = "absent" => v.outcome = "error"
               /\ v.read.kind = "malformed" => v.outcome = "invalid_json"
               /\ (ReadDocument(v) /\ RecipeCount(v) = 0) => v.outcome = "error"
               /\ v.outcome = "completed" <=> (ReadDocument(v) /\ RecipeCount(v) > 0)
               /\ v.outcome = "completed" =>
                      (Printed("avg_ingredients", <<>>) /\ Printed("avg_steps", <<>>))
               /\ v.outcome # "completed" =>
                      ~(Printed("avg_ingredients", <<>>) \/ Printed("avg_steps", <<>>))

\* Every PDF failed, the run wrote a document with no recipe, and its
\* validation ended in the generic error path.
C9_Witness ==
    /\ pc = "exit"
    /\ Len(vlog) = 1
    /\ vlog[1].written_by_run
    /\ ReadDocument(vlog[1])
    /\ vlog[1].read.value.recipes = <<>>
    /\ vlog[1].exc = "ZeroDivisionError"
    /\ vlog[1].outcome = "error"
    /\ failed # <<>>

\* C10: with --validate-only, process_directory is never invoked and
\* nothing is written; in conversion mode validate_json runs after
\* process_directory has returned and reads only a document written by this
\* invocation, so a file already at the output path is not validated when
\* process_directory returned early.
C10_ValidatesOnlyThisRunsDocument ==
    /\ args.validate_only # None =>
           (~wrote /\ pc \notin {"process_directory", "loop", "after_convert"})
    /\ (args.validate_only = None /\ pc = "validate_json") => queue = <<>>
    /\ args.validate_only = None =>
           \A n \in 1..Len(vlog) :
               vlog[n].read.kind # "absent" => vlog[n].written_by_run

====
